---------------------------- MODULE Spec2Model ----------------------------
(***************************************************************************)
(* A model of JPFOG-blurry's queue, file naming and batch runner           *)
(* (src/blurry/main_window.py).                                            *)
(*                                                                         *)
(* Strings are sequences of one-character strings, so that str.replace     *)
(* and str.split act on characters exactly as Python's do.                 *)
(*                                                                         *)
(* A fourth part models video.py's Encoder.                                *)
(*                                                                         *)
(* The specifications share the variables:                                 *)
(*   SpecFilename  the pure functions _build_filename and the parsing      *)
(*                 half of _get_export_path, applied to every combination  *)
(*                 of widget values within the bounds;                     *)
(*   SpecQueue     enqueue and remove_row alone, with remove_row's event   *)
(*                 pumping, for every order of the operator's clicks;      *)
(*   Spec          the window: enqueue, remove_row and blur_videos with    *)
(*                 its event pumping (calls of blur_videos inside one      *)
(*                 another included), the cancel slot, the redaction       *)
(*                 subprocesses and the export file system;                *)
(*   SpecRun       the window, from a queue of two rows;                   *)
(*   SpecEncoder   Encoder.encode_frame and Encoder.finish.                *)
(***************************************************************************)
EXTENDS Integers, Sequences, FiniteSets, TLC

(***************************************************************************)
(* Characters and Python's string operations                               *)
(***************************************************************************)

\* the separator of the filename tokens, and the extension dot
US == "_"
DOT == "."

DigitChars == <<"0", "1", "2", "3", "4", "5", "6", "7", "8", "9">>

\* str(n) for n >= 0: the decimal digits, no padding
RECURSIVE IntToStr(_)
IntToStr(n) ==
    IF n < 10 THEN <<DigitChars[n + 1]>>
    ELSE IntToStr(n \div 10) \o <<DigitChars[(n % 10) + 1]>>

\* f"{n:03d}" gone wrong: the last digit alone, padded
Format03dLastDigit(n) == <<"0", "0", DigitChars[(n % 10) + 1]>>

\* f"{n:03d}": zero-padded to a MINIMUM width of three
Format03d(n) ==
    LET s == IntToStr(n)
    IN  IF Len(s) >= 3 THEN s
        ELSE IF Len(s) = 2 THEN <<"0">> \o s
        ELSE <<"0", "0">> \o s

\* s.startswith(p)
StartsWith(s, p) == Len(s) >= Len(p) /\ SubSeq(s, 1, Len(p)) = p

\* s.replace(old, new): every non-overlapping occurrence, left to right
RECURSIVE StrReplace(_, _, _)
StrReplace(s, old, new) ==
    IF Len(s) < Len(old) THEN s
    ELSE IF StartsWith(s, old)
         THEN new \o StrReplace(SubSeq(s, Len(old) + 1, Len(s)), old, new)
         ELSE <<s[1]>> \o StrReplace(Tail(s), old, new)

\* s.count(sub): the number of non-overlapping occurrences
RECURSIVE StrCount(_, _)
StrCount(s, sub) ==
    IF Len(s) < Len(sub) THEN 0
    ELSE IF StartsWith(s, sub)
         THEN 1 + StrCount(SubSeq(s, Len(sub) + 1, Len(s)), sub)
         ELSE StrCount(Tail(s), sub)

\* s.split(c) for a one-character separator: empty pieces are kept
RECURSIVE StrSplit(_, _)
StrSplit(s, c) ==
    IF \A i \in 1..Len(s) : s[i] # c THEN <<s>>
    ELSE LET k == CHOOSE i \in 1..Len(s) :
                      s[i] = c /\ \A j \in 1..(i - 1) : s[j] # c
         IN  <<SubSeq(s, 1, k - 1)>> \o StrSplit(SubSeq(s, k + 1, Len(s)), c)

(***************************************************************************)
(* The filename builder widgets (MainWindow.__init__)                      *)
(***************************************************************************)

Rochester == <<"R", "o", "c", "h", "e", "s", "t", "e", "r">>

SiteIds ==
    { <<"C", "1">>, <<"C", "2">>, <<"C", "3">>, <<"C", "4">>,
      <<"C", "5">>, <<"C", "6">>, <<"C", "7">>, Rochester }

FreezerStatuses == { <<"F", "R">>, <<"N", "F">>, <<"C", "O">> }

SessionIds == { <<"s", "e", "s", "0", "1">>, <<"s", "e", "s", "0", "2">> }

MedicationStatuses == { <<"o", "n">>, <<"o", "f", "f">> }

TrialIds ==
    { <<"s", "t", "w", "a", "l", "k">>, <<"d", "t", "w", "a", "l", "k">>,
      <<"s", "t", "c", "a", "r", "r">>, <<"s", "t", "t", "u", "r", "n">>,
      <<"d", "t", "t", "u", "r", "n">>, <<"s", "t", "s", "h", "u", "f">>,
      <<"s", "t", "a", "g", "i", "l">>, <<"s", "t", "d", "o", "o", "r">>,
      <<"v", "o", "s", "t", "o", "p">>, <<"c", "u", "s", "t", "o", "p">> }

VideoPlanes == { <<"f", "r", "o", "n", "t">>, <<"s", "a", "g", "i", "t">> }

\* the spin boxes' setRange(0, 999)
SubjectIdMax == 999
RetryMax == 999

\* Bounds: the spin box values tried are 0..MaxSubjectId and 0..MaxRetry
\* together with the values where the number of digits changes and the
\* largest value of the range.
MaxSubjectId == 1
MaxRetry == 1

SubjectIds == { n \in (0..MaxSubjectId) \cup {10, 100, SubjectIdMax} : n <= SubjectIdMax }
Retries == { n \in (0..MaxRetry) \cup {10, RetryMax} : n <= RetryMax }

\* every combination of widget values within the bounds
FormSpace ==
    [ site_id : SiteIds, subject_id : SubjectIds,
      freezer_status : FreezerStatuses, session_id : SessionIds,
      medication_status : MedicationStatuses, trial_id : TrialIds,
      retry : Retries, video_plane : VideoPlanes ]

\* the widgets' values after construction: first item, minimum value
DefaultForm ==
    [ site_id |-> <<"C", "1">>, subject_id |-> 0,
      freezer_status |-> <<"F", "R">>,
      session_id |-> <<"s", "e", "s", "0", "1">>,
      medication_status |-> <<"o", "n">>,
      trial_id |-> <<"s", "t", "w", "a", "l", "k">>,
      retry |-> 0, video_plane |-> <<"f", "r", "o", "n", "t">> ]

(***************************************************************************)
(* _build_filename and the pure half of _get_export_path                   *)
(***************************************************************************)

BlurToken == <<"b", "l", "u", "r">>
UnblurToken == <<"u", "n", "b", "l", "u", "r">>
Mp4 == <<".", "m", "p", "4">>
Sub == <<"s", "u", "b">>
Retr == <<"-", "r", "e", "t", "r">>

\* the site prefix: empty for Rochester, otherwise the site and "_"
SitePrefix(site_id) == IF site_id = Rochester THEN <<>> ELSE site_id \o <<US>>

\* the trial token gone wrong: "-retr<retry>" is appended for retry 0 too
TrialTokenAlwaysRetr(trial_id, retry) == trial_id \o Retr \o IntToStr(retry)

\* the trial token, with "-retr<retry>" appended when retry # 0
TrialToken(trial_id, retry) ==
    IF retry = 0 THEN trial_id ELSE trial_id \o Retr \o IntToStr(retry)

_build_filename(form) ==
    SitePrefix(form.site_id)
        \o Sub \o Format03d(form.subject_id) \o <<US>>
        \o form.freezer_status \o <<US>>
        \o form.session_id \o <<US>>
        \o form.medication_status \o <<US>>
        \o TrialToken(form.trial_id, form.retry) \o <<US>>
        \o form.video_plane \o <<US>>
        \o BlurToken \o Mp4

\* blurred_filename.replace("blur", "unblur"), a mutant first: the two
\* arguments of replace are swapped
UnblurredFilenameSwapped(blurred_filename) ==
    StrReplace(blurred_filename, UnblurToken, BlurToken)

UnblurredFilename(blurred_filename) ==
    StrReplace(blurred_filename, BlurToken, UnblurToken)

\* blurred_filename.split(".")[0].split("_")
Tokens(blurred_filename) == StrSplit(StrSplit(blurred_filename, DOT)[1], US)

\* the three folder names; fewer than five tokens is an IndexError
ExportFolders(blurred_filename) ==
    LET tokens == Tokens(blurred_filename)
    IN  IF Len(tokens) < 5 THEN "IndexError"
        ELSE [ subject_folder |-> tokens[1] \o <<US>> \o tokens[2] \o <<US>> \o tokens[3],
               session_folder |-> tokens[4],
               onoff_folder   |-> tokens[5] ]

(***************************************************************************)
(* State                                                                   *)
(***************************************************************************)

VARIABLES
    \* SpecFilename: the widget values, and the results computed from them
    form,               \* the filename builder widgets' values
    stage,              \* "form", "built", "derived"
    new_filename,       \* _build_filename's result
    export,             \* _get_export_path's names for new_filename
    \* Spec: the window
    queue,              \* self._queue: rows of [orig, name, Row]
    _cancel_blurring,   \* self._cancel_blurring
    blurring_process,   \* self.blurring_process (status "unset": no attribute)
    blurring_finished,  \* self.blurring_finished
    orphans,            \* running subprocesses that blurring_process has let go
    suspended,          \* the blur_videos calls below the running one: their
                        \* local variables, dialog and log
    stack,              \* the handlers that are inside a processEvents() call
    pc,                 \* where blur_videos stands ("idle": not running)
    row,                \* blur_videos' loop variable
    num_rows,           \* blur_videos' num_rows
    export_dir,         \* blur_videos' export_dir
    paths,              \* blur_videos' local_path, unblurred_path, blurred_path
    dialog,             \* the progress dialog: none, shown, rejected, accepted;
                        \* stuck: shown, and its blur_videos call is gone
    msgbox,             \* the text of the open QMessageBox, or "none"
    dirs,               \* the directories below the export roots' two folders
    files,              \* the untouched copies: path -> [data, writes]
    log,                \* what the current blur_videos call has done, in order
    clicks,             \* Spec's bound: the operator's inputs so far
    \* SpecEncoder: an Encoder
    stream,             \* self.stream: the codec's buffered packets, and the
                        \* number of frames it was given
    video_out,          \* self.video_out: the packets muxed, and whether the
                        \* container is closed
    frames              \* the frames passed to encode_frame so far

filename_vars == <<form, stage, new_filename, export>>

window_vars ==
    <<queue, _cancel_blurring, blurring_process, blurring_finished, orphans,
      suspended, stack, pc, row, num_rows, export_dir, paths, dialog, msgbox,
      dirs, files, log>>

encoder_vars == <<stream, video_out, frames>>

vars == <<filename_vars, window_vars, clicks, encoder_vars>>

NoExport == [unblurred_filename |-> <<>>, folders |-> "none"]

NoProcess == [status |-> "unset", row |-> 0, retcode |-> 0, signalled |-> FALSE]

NoPaths == [local_path |-> "", new_name |-> <<>>, unblurred_path |-> "none",
            blurred_path |-> "none"]

\* the empty function: no untouched copy exists
NoFiles == [p \in {} |-> 0]

\* the Encoder after __init__: the container is open, nothing is encoded
EncoderInit ==
    /\ stream = [buffer |-> <<>>, encoded_frame_count |-> 0]
    /\ video_out = [packets |-> <<>>, closed |-> FALSE, flushed |-> 0]
    /\ frames = <<>>

\* the window after MainWindow.__init__; no export directory has been used
WindowInit ==
    /\ queue = <<>>
    /\ _cancel_blurring = FALSE
    /\ blurring_process = NoProcess
    /\ blurring_finished = FALSE
    /\ orphans = 0
    /\ suspended = <<>>
    /\ stack = <<>>
    /\ pc = "idle"
    /\ row = 0
    /\ num_rows = 0
    /\ export_dir = ""
    /\ paths = NoPaths
    /\ dialog = "none"
    /\ msgbox = "none"
    /\ dirs = {}
    /\ files = NoFiles
    /\ log = <<>>
    /\ clicks = 0

(***************************************************************************)
(* SpecFilename: _build_filename and _get_export_path's names, applied to  *)
(* every combination of widget values                                      *)
(***************************************************************************)

InitFilename ==
    /\ form \in FormSpace
    /\ stage = "form"
    /\ new_filename = <<>>
    /\ export = NoExport
    /\ WindowInit
    /\ EncoderInit

\* enqueue's call of _build_filename
BuildFilename ==
    /\ stage = "form"
    /\ new_filename' = _build_filename(form)
    /\ stage' = "built"
    /\ UNCHANGED <<form, export, window_vars, clicks, encoder_vars>>

\* blur_videos' call of _get_export_path: the names it derives
DeriveExport ==
    /\ stage = "built"
    /\ export' = [unblurred_filename |-> UnblurredFilename(new_filename),
                  folders |-> ExportFolders(new_filename)]
    /\ stage' = "derived"
    /\ UNCHANGED <<form, new_filename, window_vars, clicks, encoder_vars>>

NextFilename == BuildFilename \/ DeriveExport

SpecFilename == InitFilename /\ [][NextFilename]_vars

(***************************************************************************)
(* Spec: the environment of the window                                     *)
(***************************************************************************)

\* Bounds
MaxQueue == 3           \* rows in the queue
MaxDepth == 2           \* remove_row calls inside one another's processEvents()
MaxClicks == 3          \* Spec: rows added, rows removed and batches started
MaxNested == 1          \* blur_videos calls suspended below the running one

\* SpecQueue: the video files the operator can open, and the widget values
\* the operator enqueues with (two sites with a prefix and the site
\* without one, everything else as constructed)
SourcePaths == {"a.mp4", "b.mp4", "c.mp4"}

QueueForms ==
    { [DefaultForm EXCEPT !.site_id = s] :
        s \in {<<"C", "1">>, <<"C", "2">>, Rochester} }

\* Spec: the same, fewer
BatchSourcePaths == {"a.mp4", "b.mp4"}

BatchForms ==
    { [DefaultForm EXCEPT !.site_id = s] : s \in {<<"C", "1">>, Rochester} }

\* what QFileDialog.getExistingDirectory can return: "" (dialog closed), a
\* root holding both required folders, and roots lacking one or both
ExportDirs == {"", "/both", "/only_source", "/only_derived", "/neither"}

\* os.path.exists(os.path.join(dir, folder)) for the two top-level folders,
\* which the program never creates
TopFolderExists(dir, folder) ==
    \/ dir = "/both"
    \/ dir = "/only_source" /\ folder = "source_data"
    \/ dir = "/only_derived" /\ folder = "derived_data"

\* the exit codes of a redaction subprocess that was not signalled
ExitCodes == {0, 1}

(***************************************************************************)
(* Spec: helpers                                                           *)
(***************************************************************************)

Event(op, r) == [op |-> op, row |-> r]

HasEvent(op) == \E i \in 1..Len(log) : log[i].op = op

\* the main window takes input: no modal dialog or message box is open
MainInteractive == dialog \notin {"shown", "stuck"} /\ msgbox = "none"

\* blur_videos is on the Python stack
BatchActive == \E i \in 1..Len(stack) : stack[i] = "blur_videos"

Top == IF stack = <<>> THEN "main" ELSE stack[Len(stack)]

Pop == SubSeq(stack, 1, Len(stack) - 1)

\* an event loop is running and can deliver an event: app.exec(), or the
\* processEvents() of the handler on top of the stack
Dispatching ==
    /\ msgbox = "none"
    /\ \/ Top = "main"
       \/ Top = "remove_row"
       \/ Top = "blur_videos" /\ pc \in {"pump_start", "pump_poll", "pump_end"}

\* blur_videos is the running frame and stands at `at`
At(at) == msgbox = "none" /\ Top = "blur_videos" /\ pc = at

\* self._queue.item(row, col).text()
ColumnText(entry, col) == IF col = 0 THEN entry.orig ELSE entry.name

\* _verify_unique_filename, a mutant first: the loop starts at the second row
VerifyUniqueSkipsFirstRow(q, prop, col) ==
    \A i \in 2..Len(q) : prop # ColumnText(q[i], col)

_verify_unique_filename(q, prop, col) ==
    \A i \in 1..Len(q) : prop # ColumnText(q[i], col)

\* QTableWidget.removeRow(r): nothing happens when r is no row
RemoveRowAt(q, r) ==
    IF r < 0 \/ r >= Len(q) THEN q
    ELSE SubSeq(q, 1, r) \o SubSeq(q, r + 2, Len(q))

\* _verify_export_directory, a mutant first: "or" for "and"
VerifyExportEither(dir) ==
    TopFolderExists(dir, "source_data") \/ TopFolderExists(dir, "derived_data")

_verify_export_directory(dir) ==
    TopFolderExists(dir, "source_data") /\ TopFolderExists(dir, "derived_data")

\* the directory of one tree for a filename, as _get_export_path joins it
ExportDirectory(parent_dir, tree, blurred_filename) ==
    LET folders == ExportFolders(blurred_filename)
    IN  [root |-> parent_dir, tree |-> tree,
         subject_folder |-> folders.subject_folder,
         session_folder |-> folders.session_folder,
         onoff_folder |-> folders.onoff_folder]

\* the two paths _get_export_path returns
UnblurredPath(parent_dir, blurred_filename) ==
    [dir |-> ExportDirectory(parent_dir, "source_data", blurred_filename),
     name |-> UnblurredFilename(blurred_filename)]

BlurredPath(parent_dir, blurred_filename) ==
    [dir |-> ExportDirectory(parent_dir, "derived_data", blurred_filename),
     name |-> blurred_filename]

\* os.path.exists(unblurred_path)
FileExists(path) == path \in DOMAIN files

\* lines 444-445, a mutant first: the copy is made without the check
CopyAlways(fs, local_path, unblurred_path) ==
    [p \in DOMAIN fs \cup {unblurred_path} |->
        IF p = unblurred_path
        THEN [data |-> local_path,
              writes |-> IF p \in DOMAIN fs THEN fs[p].writes + 1 ELSE 1]
        ELSE fs[p]]

CopyIfMissing(fs, local_path, unblurred_path) ==
    IF unblurred_path \in DOMAIN fs THEN fs
    ELSE [p \in DOMAIN fs \cup {unblurred_path} |->
            IF p = unblurred_path THEN [data |-> local_path, writes |-> 1]
            ELSE fs[p]]

(***************************************************************************)
(* Spec: the window's handlers                                             *)
(***************************************************************************)

batch_vars == <<pc, row, num_rows, export_dir, paths>>
fs_vars == <<dirs, files>>
proc_vars == <<blurring_process, blurring_finished, orphans>>

\* enqueue, with the media player's source being local_path ("" when no
\* video is open) and the filename builder widgets holding f
Enqueue(local_path, f) ==
    /\ Dispatching /\ MainInteractive
    /\ Len(queue) < MaxQueue
    /\ LET built == _build_filename(f)
       IN  IF local_path = ""
           THEN UNCHANGED <<queue, msgbox>>
           ELSE IF ~_verify_unique_filename(queue, local_path, 0)
           THEN /\ msgbox' = "Video file already in use!"
                /\ UNCHANGED queue
           ELSE IF ~_verify_unique_filename(queue, built, 1)
           THEN /\ msgbox' = "Filename already in use!"
                /\ UNCHANGED queue
           ELSE /\ queue' = Append(queue, [orig |-> local_path, name |-> built,
                                           Row |-> Len(queue)])
                /\ UNCHANGED msgbox
    /\ UNCHANGED <<filename_vars, encoder_vars, _cancel_blurring, proc_vars, suspended,
                   stack, batch_vars, dialog, fs_vars, log>>

\* msg.exec() returns: the operator closes the message box, and the handler
\* that opened it returns
DismissMessage ==
    /\ msgbox # "none"
    /\ msgbox' = "none"
    /\ UNCHANGED <<filename_vars, encoder_vars, clicks, queue, _cancel_blurring, proc_vars,
                   suspended, stack, batch_vars, dialog, fs_vars, log>>

\* remove_row up to its processEvents(): the button of row i (counted from
\* 1) was clicked; the row its Row property names is removed
RemoveRow(i) ==
    /\ Dispatching /\ MainInteractive
    /\ i \in 1..Len(queue)
    /\ Cardinality({k \in 1..Len(stack) : stack[k] = "remove_row"}) < MaxDepth
    /\ queue' = RemoveRowAt(queue, queue[i].Row)
    /\ stack' = Append(stack, "remove_row")
    /\ UNCHANGED <<filename_vars, encoder_vars, _cancel_blurring, proc_vars, suspended,
                   batch_vars, dialog, msgbox, fs_vars, log>>

\* remove_row after its processEvents(): _update_row_property
UpdateRowProperty ==
    /\ msgbox = "none" /\ Top = "remove_row"
    /\ queue' = [k \in 1..Len(queue) |-> [queue[k] EXCEPT !.Row = k - 1]]
    /\ stack' = Pop
    /\ UNCHANGED <<filename_vars, encoder_vars, clicks, _cancel_blurring, proc_vars,
                   suspended, batch_vars, dialog, msgbox, fs_vars, log>>

\* the running blur_videos call, as it is kept while a call above it runs
Frame ==
    [pc |-> pc, row |-> row, num_rows |-> num_rows, export_dir |-> export_dir,
     paths |-> paths, dialog |-> dialog, log |-> log]

\* blur_videos, lines 390-429, with the export dialog returning dir.  The
\* Run button can be clicked while an earlier call pumps events with its
\* dialog hidden: the new call then runs inside that processEvents().
BlurVideos(dir) ==
    /\ Dispatching /\ MainInteractive
    /\ BatchActive => Len(suspended) < MaxNested
    /\ _cancel_blurring' = FALSE
    /\ IF Len(queue) = 0 \/ dir = ""
       THEN UNCHANGED <<stack, batch_vars, dialog, msgbox, log, suspended>>
       ELSE IF ~_verify_export_directory(dir)
       THEN /\ msgbox' = "There is a problem with the export location's folder structure!"
            /\ UNCHANGED <<stack, batch_vars, dialog, log, suspended>>
       ELSE /\ suspended' = IF BatchActive THEN Append(suspended, Frame)
                            ELSE suspended
            /\ export_dir' = dir
            /\ dialog' = "shown"
            /\ num_rows' = Len(queue)
            /\ row' = 0
            /\ pc' = "loop"
            /\ paths' = NoPaths
            /\ stack' = Append(stack, "blur_videos")
            /\ log' = <<Event("started", Len(queue))>>
            /\ UNCHANGED msgbox
    /\ UNCHANGED <<filename_vars, encoder_vars, queue, proc_vars, fs_vars>>

\* blur_videos leaves the stack, and its local variables with it; the call
\* below it, if there is one, is the running call again.  final_log is what
\* the call has done, own_dialog what has become of its dialog.
Return(final_log, own_dialog) ==
    /\ stack' = Pop
    /\ IF suspended = <<>>
       THEN /\ pc' = "idle"
            /\ row' = 0
            /\ num_rows' = 0
            /\ export_dir' = ""
            /\ paths' = NoPaths
            /\ dialog' = own_dialog
            /\ log' = final_log
            /\ UNCHANGED suspended
       ELSE LET below == suspended[Len(suspended)]
            IN  /\ pc' = below.pc
                /\ row' = below.row
                /\ num_rows' = below.num_rows
                /\ export_dir' = below.export_dir
                /\ paths' = below.paths
                /\ dialog' = IF own_dialog = "stuck" THEN "stuck"
                             ELSE below.dialog
                /\ log' = below.log
                /\ suspended' = SubSeq(suspended, 1, Len(suspended) - 1)

\* line 474, progress_dialog.accept(): the call's dialog is closed (a dialog
\* left open by a call that has gone stays open)
Accepted == IF dialog = "stuck" THEN "stuck" ELSE "accepted"

\* line 430 with the range exhausted, then line 474
LoopExit ==
    /\ At("loop") /\ row = num_rows
    /\ Return(Append(log, Event("completed", row)), Accepted)
    /\ UNCHANGED <<filename_vars, encoder_vars, clicks, queue, _cancel_blurring, proc_vars,
                   msgbox, fs_vars>>

\* lines 431-433, then line 474
LoopCancelled ==
    /\ At("loop") /\ row < num_rows /\ _cancel_blurring
    /\ Return(Append(log, Event("cancelled_at_start", row)), Accepted)
    /\ UNCHANGED <<filename_vars, encoder_vars, clicks, queue, _cancel_blurring, proc_vars,
                   msgbox, fs_vars>>

\* update_queue_label gone wrong: the row index is shown as it is
UpdateQueueLabelZeroBased(value, num_videos_to_blur) ==
    [n |-> value, m |-> num_videos_to_blur]

\* ProgressDialog.update_queue_label: "Working on video {value + 1}/{M}"
update_queue_label(value, num_videos_to_blur) ==
    [n |-> value + 1, m |-> num_videos_to_blur]

\* line 435: video_progress.emit(row), delivered to update_queue_label of
\* the call's dialog, which was constructed with num_rows
EmitProgress ==
    /\ At("loop") /\ row < num_rows /\ ~_cancel_blurring
    /\ log' = Append(log, [op |-> "progress", row |-> row,
                           label |-> update_queue_label(row, num_rows)])
    /\ pc' = "pump_start"
    /\ UNCHANGED <<filename_vars, encoder_vars, clicks, queue, _cancel_blurring, proc_vars,
                   suspended, stack, row, num_rows, export_dir, paths,
                   dialog, msgbox, fs_vars>>

\* line 436: processEvents() returns
PumpStartReturns ==
    /\ At("pump_start")
    /\ pc' = "paths"
    /\ UNCHANGED <<filename_vars, encoder_vars, clicks, queue, _cancel_blurring, proc_vars,
                   suspended, stack, row, num_rows, export_dir, paths,
                   dialog, msgbox, fs_vars, log>>

\* an exception leaves blur_videos: nothing in it catches one, so the loop
\* and line 474 are skipped, Qt prints the traceback, and the dialog, if it
\* is shown, stays
Unwind(cause) ==
    Return(Append(log, Event(cause, row)),
           IF dialog = "shown" THEN "stuck" ELSE dialog)

\* lines 439-441 and _get_export_path up to line 503: the entry of the row
\* is read, the names are derived, and os.path.exists is asked for the
\* directory in source_data
GetExportPath ==
    /\ At("paths")
    /\ IF row >= Len(queue)
       THEN \* self._queue.item(row, 0) is None: AttributeError
            Unwind("raised_item")
       ELSE LET local_path == ColumnText(queue[row + 1], 0)
                new_name == ColumnText(queue[row + 1], 1)
                unblurred_path == UnblurredPath(export_dir, new_name)
                blurred_path == BlurredPath(export_dir, new_name)
            IN  IF Len(Tokens(new_name)) < 5
                THEN Unwind("raised_index")
                ELSE /\ paths' = [local_path |-> local_path,
                                  new_name |-> new_name,
                                  unblurred_path |-> unblurred_path,
                                  blurred_path |-> blurred_path]
                     /\ pc' = IF unblurred_path.dir \in dirs
                              THEN "derived_exists" ELSE "source_makedirs"
                     /\ UNCHANGED <<suspended, stack, row, num_rows,
                                    export_dir, dialog, log>>
    /\ UNCHANGED <<filename_vars, encoder_vars, clicks, queue, _cancel_blurring, proc_vars,
                   msgbox, fs_vars>>

\* os.makedirs(path) as lines 504 and 510 call it, without exist_ok: it
\* raises FileExistsError when the directory is there, and can fail for
\* other reasons (no permission, disk full)
MakeDirs(path, next_pc) ==
    IF path \in dirs
    THEN /\ Unwind("raised_exists")
         /\ UNCHANGED dirs
    ELSE \E ok \in BOOLEAN :
           IF ok
           THEN /\ dirs' = dirs \cup {path}
                /\ log' = Append(log, Event("makedirs", row))
                /\ pc' = next_pc
                /\ UNCHANGED <<suspended, stack, row, num_rows, export_dir,
                               paths, dialog>>
           ELSE /\ Unwind("raised_makedirs")
                /\ UNCHANGED dirs

\* line 504
MakeSourceDir ==
    /\ At("source_makedirs")
    /\ MakeDirs(paths.unblurred_path.dir, "derived_exists")
    /\ UNCHANGED <<filename_vars, encoder_vars, clicks, queue, _cancel_blurring, proc_vars,
                   msgbox, files>>

\* line 509: os.path.exists for the directory in derived_data
CheckDerivedDir ==
    /\ At("derived_exists")
    /\ pc' = IF paths.blurred_path.dir \in dirs THEN "copy"
             ELSE "derived_makedirs"
    /\ UNCHANGED <<filename_vars, encoder_vars, clicks, queue, _cancel_blurring, proc_vars,
                   suspended, stack, row, num_rows, export_dir, paths,
                   dialog, msgbox, fs_vars, log>>

\* line 510
MakeDerivedDir ==
    /\ At("derived_makedirs")
    /\ MakeDirs(paths.blurred_path.dir, "copy")
    /\ UNCHANGED <<filename_vars, encoder_vars, clicks, queue, _cancel_blurring, proc_vars,
                   msgbox, files>>

\* another program (a second instance of the application, a file
\* synchroniser) creates the directory between os.path.exists and
\* os.makedirs
OtherActorMakesDir ==
    /\ pc \in {"source_makedirs", "derived_makedirs"}
    /\ LET path == IF pc = "source_makedirs" THEN paths.unblurred_path.dir
                   ELSE paths.blurred_path.dir
       IN  /\ path \notin dirs
           /\ dirs' = dirs \cup {path}
    /\ UNCHANGED <<filename_vars, encoder_vars, clicks, queue, _cancel_blurring, proc_vars,
                   suspended, stack, batch_vars, dialog, msgbox, files, log>>

\* lines 444-445: shutil.copy2 unless the untouched copy exists; copy2 can
\* raise (the source file is gone, the disk is full)
CopyOriginal ==
    /\ At("copy")
    /\ \E ok \in BOOLEAN :
         IF ok
         THEN /\ files' = CopyIfMissing(files, paths.local_path, paths.unblurred_path)
              /\ log' = Append(log, Event(IF FileExists(paths.unblurred_path)
                                          THEN "copy_skipped" ELSE "copy", row))
              /\ pc' = "popen"
              /\ UNCHANGED <<suspended, stack, row, num_rows, export_dir,
                             paths, dialog>>
         ELSE /\ ~FileExists(paths.unblurred_path)
              /\ Unwind("raised_copy")
              /\ UNCHANGED files
    /\ UNCHANGED <<filename_vars, encoder_vars, clicks, queue, _cancel_blurring, proc_vars,
                   msgbox, dirs>>

\* lines 448-460: subprocess.Popen(commands), which raises when deface
\* cannot be started.  The Popen object that blurring_process named before
\* is let go; its subprocess, if it still runs, runs on.
LaunchDeface ==
    /\ At("popen")
    /\ \E ok \in BOOLEAN :
         IF ok
         THEN /\ blurring_process' = [status |-> "running", row |-> row,
                                      retcode |-> 0, signalled |-> FALSE]
              /\ blurring_finished' = FALSE
              /\ orphans' = IF blurring_process.status = "running"
                            THEN orphans + 1 ELSE orphans
              /\ log' = Append(log, [op |-> "popen", row |-> row,
                                     local_path |-> paths.local_path,
                                     unblurred_path |-> paths.unblurred_path,
                                     blurred_path |-> paths.blurred_path])
              /\ pc' = "poll"
              /\ UNCHANGED <<suspended, stack, row, num_rows, export_dir,
                             paths, dialog>>
         ELSE /\ Unwind("raised_popen")
              /\ UNCHANGED proc_vars
    /\ UNCHANGED <<filename_vars, encoder_vars, clicks, queue, _cancel_blurring, msgbox,
                   fs_vars>>

\* the redaction subprocess ends: by itself, or by the signal it was sent
ProcessExits(code) ==
    /\ blurring_process.status = "running"
    /\ blurring_process' =
         [blurring_process EXCEPT
            !.status = "exited",
            !.retcode = IF blurring_process.signalled THEN -15 ELSE code]
    /\ UNCHANGED <<filename_vars, encoder_vars, clicks, queue, _cancel_blurring,
                   blurring_finished, orphans, suspended, stack, batch_vars,
                   dialog, msgbox, fs_vars, log>>

\* a subprocess that blurring_process has let go ends
OrphanExits ==
    /\ orphans > 0
    /\ orphans' = orphans - 1
    /\ UNCHANGED <<filename_vars, encoder_vars, clicks, queue, _cancel_blurring,
                   blurring_process, blurring_finished, suspended, stack,
                   batch_vars, dialog, msgbox, fs_vars, log>>

\* lines 461-467: poll() returns None, so the events are pumped
PollRunning ==
    /\ At("poll") /\ ~blurring_finished
    /\ blurring_process.status = "running"
    /\ pc' = "pump_poll"
    /\ UNCHANGED <<filename_vars, encoder_vars, clicks, queue, _cancel_blurring, proc_vars,
                   suspended, stack, row, num_rows, export_dir, paths,
                   dialog, msgbox, fs_vars, log>>

\* line 467: processEvents() returns
PumpPollReturns ==
    /\ At("pump_poll")
    /\ pc' = "poll"
    /\ UNCHANGED <<filename_vars, encoder_vars, clicks, queue, _cancel_blurring, proc_vars,
                   suspended, stack, row, num_rows, export_dir, paths,
                   dialog, msgbox, fs_vars, log>>

\* lines 461-470: poll() returns the exit code; a warning unless it is 0
PollExited ==
    /\ At("poll") /\ ~blurring_finished
    /\ blurring_process.status = "exited"
    /\ blurring_finished' = TRUE
    /\ log' = IF blurring_process.retcode # 0
              THEN Append(log, Event("warning", row))
              ELSE log
    /\ pc' = "pump_end"
    /\ UNCHANGED <<filename_vars, encoder_vars, clicks, queue, _cancel_blurring,
                   blurring_process, orphans, suspended, stack, row, num_rows,
                   export_dir, paths, dialog, msgbox, fs_vars>>

\* line 461 after a processEvents() in which another blur_videos call ran
\* its own loop to the end: self.blurring_finished is True, the while loop
\* is left with retcode None, and line 470 warns
PollLoopLeft ==
    /\ At("poll") /\ blurring_finished
    /\ log' = Append(log, Event("warning", row))
    /\ pc' = "pump_end"
    /\ UNCHANGED <<filename_vars, encoder_vars, clicks, queue, _cancel_blurring, proc_vars,
                   suspended, stack, row, num_rows, export_dir, paths,
                   dialog, msgbox, fs_vars>>

\* line 472: processEvents() returns, and the loop takes the next row
PumpEndReturns ==
    /\ At("pump_end")
    /\ row' = row + 1
    /\ pc' = "loop"
    /\ UNCHANGED <<filename_vars, encoder_vars, clicks, queue, _cancel_blurring, proc_vars,
                   suspended, stack, num_rows, export_dir, paths,
                   dialog, msgbox, fs_vars, log>>

\* the progress dialog's Cancel: QDialog.reject() hides the dialog and emits
\* rejected, which runs _blurring_cancelled.  Without a blurring_process
\* attribute the slot raises AttributeError at its first line, Qt prints
\* the traceback, and the flag is left as it was.  Otherwise terminate() is
\* called on the Popen object blurring_process names, which signals its
\* subprocess if that still runs: the subprocess of the running call's
\* current entry when that call is in its poll loop ("terminate"), else one
\* that an earlier call has launched ("terminate_earlier").
CancelClicked ==
    /\ Dispatching /\ dialog \in {"shown", "stuck"}
    /\ dialog' = "rejected"
    /\ IF blurring_process.status = "unset"
       THEN /\ log' = Append(log, Event("cancel_raised", row))
            /\ UNCHANGED <<_cancel_blurring, blurring_process>>
       ELSE /\ blurring_process' =
                 IF blurring_process.status = "running"
                 THEN [blurring_process EXCEPT !.signalled = TRUE]
                 ELSE blurring_process
            /\ _cancel_blurring' = TRUE
            /\ log' = IF blurring_process.status = "running"
                      THEN log \o <<Event(IF Top = "blur_videos" /\ pc = "pump_poll"
                                          THEN "terminate"
                                          ELSE "terminate_earlier",
                                          blurring_process.row),
                                    Event("cancelled", row)>>
                      ELSE Append(log, Event("cancelled", row))
    /\ UNCHANGED <<filename_vars, encoder_vars, clicks, queue, blurring_finished, orphans,
                   suspended, stack, batch_vars, msgbox, fs_vars>>

Init ==
    /\ form = DefaultForm
    /\ stage = "form"
    /\ new_filename = <<>>
    /\ export = NoExport
    /\ WindowInit
    /\ EncoderInit

\* Spec's inputs that add a row, remove a row or start a batch: at most
\* MaxClicks of them (a click that is turned down is not counted)
EnqueueClick ==
    /\ \E local_path \in BatchSourcePaths \cup {""}, f \in BatchForms :
         Enqueue(local_path, f)
    /\ clicks' = IF queue' # queue THEN clicks + 1 ELSE clicks
    /\ clicks' <= MaxClicks

RemoveClick ==
    /\ clicks < MaxClicks
    /\ \E i \in 1..MaxQueue : RemoveRow(i)
    /\ clicks' = clicks + 1

RunClick ==
    /\ \E dir \in ExportDirs : BlurVideos(dir)
    /\ clicks' = IF stack' # stack THEN clicks + 1 ELSE clicks
    /\ clicks' <= MaxClicks

\* Spec: the whole window
Next ==
    \/ EnqueueClick
    \/ RemoveClick
    \/ RunClick
    \/ DismissMessage
    \/ UpdateRowProperty
    \/ LoopExit
    \/ LoopCancelled
    \/ EmitProgress
    \/ PumpStartReturns
    \/ GetExportPath
    \/ MakeSourceDir
    \/ CheckDerivedDir
    \/ MakeDerivedDir
    \/ OtherActorMakesDir
    \/ CopyOriginal
    \/ LaunchDeface
    \/ \E code \in ExitCodes : ProcessExits(code)
    \/ OrphanExits
    \/ PollRunning
    \/ PumpPollReturns
    \/ PollExited
    \/ PollLoopLeft
    \/ PumpEndReturns
    \/ CancelClicked

Spec == Init /\ [][Next]_vars

\* SpecRun: the whole window, from the state in which c.mp4 and b.mp4 have
\* been enqueued (for the first site and for the site without a prefix) and
\* nothing else has been done; MaxClicks further inputs are counted
InitTwoQueued ==
    /\ form = DefaultForm
    /\ stage = "form"
    /\ new_filename = <<>>
    /\ export = NoExport
    /\ queue = << [orig |-> "c.mp4", name |-> _build_filename(DefaultForm),
                   Row |-> 0],
                  [orig |-> "b.mp4",
                   name |-> _build_filename([DefaultForm EXCEPT !.site_id = Rochester]),
                   Row |-> 1] >>
    /\ _cancel_blurring = FALSE
    /\ blurring_process = NoProcess
    /\ blurring_finished = FALSE
    /\ orphans = 0
    /\ suspended = <<>>
    /\ stack = <<>>
    /\ pc = "idle"
    /\ row = 0
    /\ num_rows = 0
    /\ export_dir = ""
    /\ paths = NoPaths
    /\ dialog = "none"
    /\ msgbox = "none"
    /\ dirs = {}
    /\ files = NoFiles
    /\ log = <<>>
    /\ clicks = 0
    /\ EncoderInit

SpecRun == InitTwoQueued /\ [][Next]_vars

\* SpecQueue: the queue's handlers alone, in any number and order
QueueEnqueue ==
    /\ \E local_path \in SourcePaths \cup {""}, f \in QueueForms :
         Enqueue(local_path, f)
    /\ UNCHANGED clicks

QueueRemove ==
    /\ \E i \in 1..MaxQueue : RemoveRow(i)
    /\ UNCHANGED clicks

NextQueue ==
    \/ QueueEnqueue
    \/ QueueRemove
    \/ DismissMessage
    \/ UpdateRowProperty

SpecQueue == Init /\ [][NextQueue]_vars

(***************************************************************************)
(* SpecEncoder: video.py's Encoder                                         *)
(***************************************************************************)

\* Bounds: the frames passed to one Encoder, and what a frame can hold
MaxFrames == 4
FrameValues == {"dark", "light"}

\* av.VideoFrame.from_ndarray(frame) and the start of stream.encode: the
\* frame has no pts, and the codec context numbers it with the count of the
\* frames it was given
ToEncode(frame) == [data |-> frame, pts |-> stream.encoded_frame_count]

\* finish gone wrong: the output is closed without the flush
MuxFlushNothing(packets, buffer) == packets

\* finish, lines 44-45: stream.encode(None) yields every packet the codec
\* still holds, and each is muxed
MuxFlush(packets, buffer) == packets \o buffer

\* encode_frame: the codec takes the frame and yields the first k of the
\* packets it holds (none while it is still filling its look-ahead), in
\* the order it was given them; each is muxed
EncodeFrame(frame, k) ==
    /\ ~video_out.closed
    /\ Len(frames) < MaxFrames
    /\ LET buffer == Append(stream.buffer, ToEncode(frame))
       IN  /\ k \in 0..Len(buffer)
           /\ stream' = [buffer |-> SubSeq(buffer, k + 1, Len(buffer)),
                         encoded_frame_count |-> stream.encoded_frame_count + 1]
           /\ video_out' = [video_out EXCEPT
                               !.packets = @ \o SubSeq(buffer, 1, k)]
    /\ frames' = Append(frames, frame)
    /\ UNCHANGED <<filename_vars, window_vars, clicks>>

\* finish: the flush, then video_out.close()
Finish ==
    /\ ~video_out.closed
    /\ video_out' = [packets |-> MuxFlush(video_out.packets, stream.buffer),
                     closed |-> TRUE,
                     flushed |-> Len(stream.buffer)]
    /\ stream' = [stream EXCEPT !.buffer = <<>>]
    /\ UNCHANGED <<filename_vars, window_vars, clicks, frames>>

EncodeFrameCall ==
    \E frame \in FrameValues, k \in 0..MaxFrames : EncodeFrame(frame, k)

NextEncoder == EncodeFrameCall \/ Finish

SpecEncoder == Init /\ [][NextEncoder]_vars

(***************************************************************************)
(* Claims about the queue (SpecQueue)                                      *)
(***************************************************************************)

\* C1: after any sequence of enqueue and remove-row operations, no two queue
\* entries have the same source path and no two have the same target
\* filename.
C1_QueueEntriesUnique ==
    \A i, j \in 1..Len(queue) :
        i # j => /\ queue[i].orig # queue[j].orig
                 /\ queue[i].name # queue[j].name

\* a row has just been removed from a queue of three, inside remove_row
C1_Witness == Top = "remove_row" /\ Len(queue) = 2

\* the enqueue of (local_path, f) meets an entry with that source path or
\* with the filename built from f
Collides(local_path, f) ==
    \E i \in 1..Len(queue) :
        \/ queue[i].orig = local_path
        \/ queue[i].name = _build_filename(f)

DuplicateMessages == {"Video file already in use!", "Filename already in use!"}

\* C2: an enqueue whose source path or built filename equals that of an
\* existing entry is rejected (a message box reports it), and the queue,
\* its size, entries and order, is the same after it as before.
C2_DuplicateEnqueueRejected ==
    [][ \A local_path \in SourcePaths, f \in QueueForms :
          (Enqueue(local_path, f) /\ Collides(local_path, f))
              => (queue' = queue /\ msgbox' \in DuplicateMessages) ]_vars

\* an enqueue was rejected for its filename with two rows in the queue
C2_Witness == msgbox = "Filename already in use!" /\ Len(queue) = 2

(***************************************************************************)
(* Claims about the filenames (SpecFilename)                               *)
(***************************************************************************)

\* the subject_id token of the widgets' values: "sub" and three digits
SubjectToken(f) == Sub \o Format03d(f.subject_id)

\* C3: for every combination of filename fields, the folders that
\* _get_export_path derives from _build_filename's result are: a subject
\* folder carrying the subject_id token, the session_id as the session
\* folder and the medication_status as the medication folder.
C3_BuildParseRoundTrip ==
    stage = "derived" =>
        /\ \E k \in 1..Len(StrSplit(export.folders.subject_folder, US)) :
              StrSplit(export.folders.subject_folder, US)[k] = SubjectToken(form)
        /\ export.folders.session_folder = form.session_id
        /\ export.folders.onoff_folder = form.medication_status

\* the combinations of widget values that differ from f in one widget
Neighbours(f) ==
    { [f EXCEPT !.site_id = v] : v \in SiteIds \ {f.site_id} }
    \cup { [f EXCEPT !.subject_id = v] : v \in SubjectIds \ {f.subject_id} }
    \cup { [f EXCEPT !.freezer_status = v] : v \in FreezerStatuses \ {f.freezer_status} }
    \cup { [f EXCEPT !.session_id = v] : v \in SessionIds \ {f.session_id} }
    \cup { [f EXCEPT !.medication_status = v] :
             v \in MedicationStatuses \ {f.medication_status} }
    \cup { [f EXCEPT !.trial_id = v] : v \in TrialIds \ {f.trial_id} }
    \cup { [f EXCEPT !.retry = v] : v \in Retries \ {f.retry} }
    \cup { [f EXCEPT !.video_plane = v] : v \in VideoPlanes \ {f.video_plane} }

\* C10: the unredacted filename is the redacted one with "blur" replaced by
\* "unblur"; for every built filename the replacement changes exactly one
\* occurrence, replacing "unblur" by "blur" gives the filename back, an
\* unredacted filename is no redacted filename (it holds "unblur", which no
\* built filename does), and two distinct built filenames have distinct
\* unredacted filenames.
C10_UnblurSubstitution ==
    stage = "derived" =>
        LET u == export.unblurred_filename
        IN  /\ StrCount(new_filename, BlurToken) = 1
            /\ Len(u) = Len(new_filename) + (Len(UnblurToken) - Len(BlurToken))
            /\ StrReplace(u, UnblurToken, BlurToken) = new_filename
            /\ StrCount(new_filename, UnblurToken) = 0
            /\ StrCount(u, UnblurToken) = 1
            /\ \A g \in Neighbours(form) :
                  LET other == _build_filename(g)
                  IN  /\ other # u
                      /\ other # new_filename => UnblurredFilename(other) # u

\* the names were derived for a retry at the site without a prefix
C10_Witness ==
    stage = "derived" /\ form.site_id = Rochester /\ form.retry = RetryMax

\* the combinations of widget values that differ from f in subject_id,
\* session_id or medication_status and in nothing else
Variants(f) ==
    { [f EXCEPT !.subject_id = s, !.session_id = e, !.medication_status = m] :
        s \in SubjectIds, e \in SessionIds, m \in MedicationStatuses } \ {f}

\* C11: with all other fields equal, two combinations that differ in
\* subject_id, session_id or medication_status never give the same
\* filename.
C11_BuildInjective ==
    stage = "built" =>
        \A g \in Variants(form) : _build_filename(g) # new_filename

\* a filename was built for the largest subject_id at the site without a
\* prefix
C11_Witness ==
    /\ stage = "built"
    /\ form.subject_id = SubjectIdMax
    /\ form.site_id = Rochester
    /\ form.medication_status = <<"o", "f", "f">>

\* int(s) for a string of decimal digits
RECURSIVE ParseInt(_)
ParseInt(s) ==
    IF s = <<>> THEN 0
    ELSE 10 * ParseInt(SubSeq(s, 1, Len(s) - 1))
           + (CHOOSE d \in 0..9 : DigitChars[d + 1] = s[Len(s)])

\* the number of the retry token "<trial>-retr<number>"
RetryNumber(token) ==
    LET retr == StrSplit(token, "-")[2]
    IN  ParseInt(SubSeq(retr, Len(Retr), Len(retr)))

\* C12: a filename built with retry 0 holds no retry token; one built with
\* a retry of 1..999 holds exactly one, and its number is the retry.
C12_RetryToken ==
    stage = "built" =>
        LET tokens == Tokens(new_filename)
            with_retr == {k \in 1..Len(tokens) : StrCount(tokens[k], Retr) > 0}
        IN  IF form.retry = 0
            THEN with_retr = {} /\ StrCount(new_filename, Retr) = 0
            ELSE /\ Cardinality(with_retr) = 1
                 /\ StrCount(new_filename, Retr) = 1
                 /\ \A k \in with_retr : RetryNumber(tokens[k]) = form.retry

\* a filename was built with a retry of two digits
C12_Witness == stage = "built" /\ form.retry = 10

(***************************************************************************)
(* Claims about the batch (Spec)                                           *)
(***************************************************************************)

\* C4: once a cancel request has been handled (the flag set) in a batch, no
\* copy is made and no redaction subprocess is launched in that batch.
C4_NothingStartedAfterCancel ==
    \A i, j \in 1..Len(log) :
        (i < j /\ log[i].op = "cancelled")
            => log[j].op \notin {"copy", "copy_skipped", "popen"}

\* C5: every cancel request delivered between showing the progress dialog
\* and closing it sets the cancellation flag: while blur_videos runs with
\* its dialog rejected, the flag is set.
C5_CancelNeverLost ==
    (BatchActive /\ dialog = "rejected") => _cancel_blurring

\* C6: a failure of the directory creation, of the copy or of the launch of
\* the subprocess for one entry never unwinds blur_videos.
C6_EntryErrorsContained ==
    \A i \in 1..Len(log) :
        log[i].op \notin {"raised_makedirs", "raised_copy", "raised_popen"}

\* the rows whose subprocess the current batch has launched, in order
RECURSIVE LaunchedRows(_)
LaunchedRows(l) ==
    IF l = <<>> THEN <<>>
    ELSE IF Head(l).op = "popen" THEN <<Head(l).row>> \o LaunchedRows(Tail(l))
    ELSE LaunchedRows(Tail(l))

\* C7: when a subprocess exited with a non-zero code and no cancellation
\* was requested, the batch has, when blur_videos is left, launched the
\* subprocess of every queue entry, in queue order.
C7_NonZeroExitContinues ==
    ( /\ ~BatchActive
      /\ HasEvent("warning")
      /\ ~HasEvent("cancelled") /\ ~HasEvent("cancel_raised") )
        => LaunchedRows(log) = [k \in 1..log[1].row |-> k - 1]

BadExportMessage == "There is a problem with the export location's folder structure!"

\* C8: if the chosen export root lacks source_data or derived_data, the
\* batch does not run: the call creates no directory, copies no file,
\* launches no subprocess, emits no progress event and shows no progress
\* dialog; it reports the problem.
C8_InvalidExportRunsNothing ==
    [][ \A dir \in ExportDirs \ {""} :
          ( /\ BlurVideos(dir)
            /\ Len(queue) > 0
            /\ ~(TopFolderExists(dir, "source_data")
                 /\ TopFolderExists(dir, "derived_data")) )
              => /\ UNCHANGED <<dirs, files, blurring_process, dialog, pc, stack>>
                 /\ log' = log
                 /\ msgbox' = BadExportMessage ]_vars

\* the problem is reported for a queue that an earlier batch has worked on
C8_Witness == msgbox = BadExportMessage /\ dirs # {} /\ Len(queue) > 0

\* C9: an untouched copy that exists is never written again: at every step
\* each existing untouched-output path keeps its content and is written no
\* further time.
C9_ExistingCopyUntouched ==
    [][ \A p \in DOMAIN files : p \in DOMAIN files' /\ files'[p] = files[p] ]_vars

\* a batch has reached an entry whose untouched copy existed, and passed it
C9_Witness == HasEvent("copy_skipped") /\ pc = "popen"

\* the queue's entries without the buttons' Row properties
Entries(q) == [k \in 1..Len(q) |-> [orig |-> q[k].orig, name |-> q[k].name]]

LogHas(l, op) == \E i \in 1..Len(l) : l[i].op = op

\* the batch whose log is l went through its loop to the end, launched the
\* subprocess of every entry it started with, and none of them failed
EveryEntryProcessed(l) ==
    /\ LogHas(l, "completed")
    /\ ~LogHas(l, "warning")
    /\ LaunchedRows(l) = [k \in 1..l[1].row |-> k - 1]

\* C13: what blur_videos leaves behind when it returns tells a batch that
\* was cut short by a cancel request from a batch in which every entry was
\* processed.  The call returns None and closes its dialog either way; the
\* one thing it leaves is the cancellation flag, so: set after a batch that
\* stopped at line 431, clear after a batch that processed every entry.
C13_TerminalStatesDistinct ==
    [][ (BatchActive /\ ~BatchActive')
          => /\ LogHas(log', "cancelled_at_start") => _cancel_blurring'
             /\ EveryEntryProcessed(log') => ~_cancel_blurring' ]_vars

\* C14: while blur_videos runs, no entry is added to the queue, removed from
\* it or moved in it.
C14_QueueFrozen ==
    [][ BatchActive => Entries(queue') = Entries(queue) ]_vars

WorkOps ==
    {"makedirs", "copy", "copy_skipped", "popen",
     "raised_makedirs", "raised_exists", "raised_copy", "raised_popen"}

\* C15: in a batch, every directory creation, copy and subprocess launch
\* for a row comes after the progress event of that row; the events show
\* N = row + 1 in strictly increasing order, and M = the number of rows the
\* queue had when the batch started.
C15_ProgressBeforeWork ==
    /\ \A j \in 1..Len(log) :
          log[j].op \in WorkOps
              => \E i \in 1..(j - 1) :
                    log[i].op = "progress" /\ log[i].row = log[j].row
    /\ \A i, j \in 1..Len(log) :
          (i < j /\ log[i].op = "progress" /\ log[j].op = "progress")
              => log[i].label.n < log[j].label.n
    /\ \A i \in 1..Len(log) :
          log[i].op = "progress"
              => log[i].label = [n |-> log[i].row + 1, m |-> log[1].row]

\* the subprocess of the second of two entries runs, after two progress
\* events
C15_Witness ==
    /\ pc = "poll" /\ row = 1
    /\ blurring_process.status = "running"
    /\ Cardinality({i \in 1..Len(log) : log[i].op = "progress"}) = 2

\* C16: a directory that appears between os.path.exists and os.makedirs
\* never makes the batch raise.
C16_MakedirsToleratesExisting ==
    \A i \in 1..Len(log) : log[i].op # "raised_exists"

\* C17: after a cancel request that signalled the running subprocess, the
\* batch starts no further entry: no progress event, directory, copy or
\* launch follows it.
C17_NothingStartedAfterTerminate ==
    \A i, j \in 1..Len(log) :
        (i < j /\ log[i].op = "terminate")
            => log[j].op \notin (WorkOps \cup {"progress"})

\* the redaction subprocesses that are running
RunningProcesses ==
    orphans + (IF blurring_process.status = "running" THEN 1 ELSE 0)

\* C18: at most one redaction subprocess runs at any time, and a batch
\* launches the subprocesses of its rows in strictly increasing row order.
C18_OneSubprocessAtATime ==
    /\ RunningProcesses <= 1
    /\ \A i, j \in 1..Len(LaunchedRows(log)) :
          i < j => LaunchedRows(log)[i] < LaunchedRows(log)[j]

\* C19: a click on the Remove button of row i removes the entry of row i
\* and no other, keeping the order of the rest; and whenever no handler is
\* running, every button's Row property is its row's index.
C19_RemoveExactlyThatRow ==
    [][ /\ \A i \in 1..MaxQueue :
              RemoveRow(i) => Entries(queue') = RemoveRowAt(Entries(queue), i - 1)
        /\ stack' = <<>> => \A k \in 1..Len(queue') : queue'[k].Row = k - 1 ]_vars

\* C20: a click on the Remove button of row i that is handled inside the
\* processEvents() of an earlier remove_row call removes the entry of row i.
C20_ReentrantRemove ==
    [][ \A i \in 1..MaxQueue :
          (Top = "remove_row" /\ RemoveRow(i))
              => Entries(queue') = RemoveRowAt(Entries(queue), i - 1) ]_vars

\* the launches of the running batch: their places in the log
Launches(l) == {i \in 1..Len(l) : l[i].op = "popen"}

\* C21: in one batch, the launches for two distinct entries (two source
\* videos) never have the same untouched-output path or the same
\* redacted-output path, and the untouched-output path of one is never the
\* redacted-output path of the other.
C21_OutputPathsDisjoint ==
    \A i, j \in Launches(log) :
        (i # j /\ log[i].local_path # log[j].local_path)
            => /\ log[i].unblurred_path # log[j].unblurred_path
               /\ log[i].blurred_path # log[j].blurred_path
               /\ log[i].unblurred_path # log[j].blurred_path

\* C22: cancellation does not leak between batches: a blur_videos call
\* enters its loop with the flag clear, and no cancel request signals a
\* subprocess that another, earlier started, call has launched.
C22_NoLeakBetweenBatches ==
    /\ (Top = "blur_videos" /\ pc = "loop" /\ row = 0) => ~_cancel_blurring
    /\ \A i \in 1..Len(log) : log[i].op # "terminate_earlier"

(***************************************************************************)
(* Claims about the Encoder (SpecEncoder)                                  *)
(***************************************************************************)

=============================================================================
